---- MODULE Spec2Model ----
\* Model of fh4-dashboard (src/main.py): the telemetry wire schema, the
\* splice-and-unpack step, the formatting helpers and the rate-gated
\* ingestion loop of serve().
\*
\* Conventions.
\*   - A byte string is a sequence of naturals in 0..255; Python's 0-based
\*     offset k is position k+1 of the sequence.
\*   - A format string is a sequence of one-character strings.
\*   - A decoded "f" value is the triple <<sign, exponent, mantissa>> of its
\*     IEEE-754 binary32 encoding (exponent biased, mantissa 23 bits).
\*   - A decoded "I" value is <<hi, lo>>, standing for hi * 65536 + lo, so
\*     that the unsigned 32-bit range needs no integer wider than 31 bits.
\*   - A text is a sequence of one-character strings.
EXTENDS Integers, Sequences, FiniteSets, TLC

\* ------------------------------------------------------------------------
\* Schema (main.py:21-120)
\* ------------------------------------------------------------------------

ATTRS ==
  << <<"is_race_on", "i">>,
     <<"timestamp_ms", "I">>,
     <<"engine_max_rpm", "f">>,
     <<"engine_idle_rpm", "f">>,
     <<"current_engine_rpm", "f">>,
     <<"acceleration_x", "f">>,
     <<"acceleration_y", "f">>,
     <<"acceleration_z", "f">>,
     <<"velocity_x", "f">>,
     <<"velocity_y", "f">>,
     <<"velocity_z", "f">>,
     <<"angular_velocity_x", "f">>,
     <<"angular_velocity_y", "f">>,
     <<"angular_velocity_z", "f">>,
     <<"yaw", "f">>,
     <<"pitch", "f">>,
     <<"roll", "f">>,
     <<"normalized_suspension_travel_front_left", "f">>,
     <<"normalized_suspension_travel_front_right", "f">>,
     <<"normalized_suspension_travel_rear_left", "f">>,
     <<"normalized_suspension_travel_rear_right", "f">>,
     <<"tire_slip_ratio_front_left", "f">>,
     <<"tire_slip_ratio_front_right", "f">>,
     <<"tire_slip_ratio_rear_left", "f">>,
     <<"tire_slip_ratio_rear_right", "f">>,
     <<"wheel_rotation_speed_front_left", "f">>,
     <<"wheel_rotation_speed_front_right", "f">>,
     <<"wheel_rotation_speed_rear_left", "f">>,
     <<"wheel_rotation_speed_rear_right", "f">>,
     <<"wheel_on_rumble_strip_front_left", "i">>,
     <<"wheel_on_rumble_strip_front_right", "i">>,
     <<"wheel_on_rumble_strip_rear_left", "i">>,
     <<"wheel_on_rumble_strip_rear_right", "i">>,
     <<"wheel_in_puddle_depth_front_left", "f">>,
     <<"wheel_in_puddle_depth_front_right", "f">>,
     <<"wheel_in_puddle_depth_rear_left", "f">>,
     <<"wheel_in_puddle_depth_rear_right", "f">>,
     <<"surface_rumble_front_left", "f">>,
     <<"surface_rumble_front_right", "f">>,
     <<"surface_rumble_rear_left", "f">>,
     <<"surface_rumble_rear_right", "f">>,
     <<"tire_slip_angle_front_left", "f">>,
     <<"tire_slip_angle_front_right", "f">>,
     <<"tire_slip_angle_rear_left", "f">>,
     <<"tire_slip_angle_rear_right", "f">>,
     <<"tire_combined_slip_front_left", "f">>,
     <<"tire_combined_slip_front_right", "f">>,
     <<"tire_combined_slip_rear_left", "f">>,
     <<"tire_combined_slip_rear_right", "f">>,
     <<"suspension_travel_meters_front_left", "f">>,
     <<"suspension_travel_meters_front_right", "f">>,
     <<"suspension_travel_meters_rear_left", "f">>,
     <<"suspension_travel_meters_rear_right", "f">>,
     <<"car_ordinal", "i">>,
     <<"car_class", "i">>,
     <<"car_performance_index", "i">>,
     <<"drivetrain_type", "i">>,
     <<"num_cylinders", "i">>,
     <<"position_x", "f">>,
     <<"position_y", "f">>,
     <<"position_z", "f">>,
     <<"speed", "f">>,
     <<"power", "f">>,
     <<"torque", "f">>,
     <<"tire_temp_front_left", "f">>,
     <<"tire_temp_front_right", "f">>,
     <<"tire_temp_rear_left", "f">>,
     <<"tire_temp_rear_right", "f">>,
     <<"boost", "f">>,
     <<"fuel", "f">>,
     <<"distance_traveled", "f">>,
     <<"best_lap", "f">>,
     <<"last_lap", "f">>,
     <<"current_lap", "f">>,
     <<"current_race_time", "f">>,
     <<"lap_number", "H">>,
     <<"race_position", "B">>,
     <<"accel", "B">>,
     <<"brake", "B">>,
     <<"clutch", "B">>,
     <<"hand_brake", "B">>,
     <<"gear", "B">>,
     <<"steer", "b">>,
     <<"normalized_driving_line", "b">>,
     <<"normalized_ai_brake_difference", "b">> >>

\* main.py:111
UNKNOWN_DATA_INDEX == 58

\* main.py:112
UNKNOWN_DATA_SIZE == 12

\* main.py:114: "<{}".format("".join(k[1] for k in ATTRS))
PACKET_FORMAT ==
  <<"<">> \o [k \in 1..Len(ATTRS) |-> ATTRS[k][2]]

\* ustruct: byte width of one format character; the byte-order mark "<"
\* occupies a character of the format string and no byte of the packet.
TypeSize(c) ==
  CASE c = "<" -> 0
    [] c \in {"i", "I", "f"} -> 4
    [] c = "H" -> 2
    [] c \in {"B", "b"} -> 1

\* ustruct.calcsize(fmt): the sum of the widths of the characters of fmt
\* (summed by halves, which keeps the evaluation shallow)
RECURSIVE calcsize(_)
calcsize(fmt) ==
  IF fmt = <<>> THEN 0
  ELSE IF Len(fmt) = 1 THEN TypeSize(fmt[1])
  ELSE LET h == Len(fmt) \div 2
       IN  calcsize(SubSeq(fmt, 1, h)) + calcsize(SubSeq(fmt, h + 1, Len(fmt)))

\* main.py:115
PACKET_SIZE == calcsize(PACKET_FORMAT)

\* Python slice s[:n] of a sequence
Prefix(s, n) ==
  SubSeq(s, 1, IF n < Len(s) THEN n ELSE Len(s))

\* Python slice s[n:] of a sequence
Suffix(s, n) ==
  IF n >= Len(s) THEN <<>> ELSE SubSeq(s, n + 1, Len(s))

\* main.py:117: calcsize(PACKET_FORMAT[:UNKNOWN_DATA_INDEX]); the slice
\* counts characters of the format string, "<" included.
PACKET_SIZE_BEFORE_UNKNOWN_DATA ==
  calcsize(Prefix(PACKET_FORMAT, UNKNOWN_DATA_INDEX))

\* main.py:120: position (1-based) of each field name in Telemetry
NameIndex ==
  [n \in {ATTRS[k][1] : k \in 1..Len(ATTRS)} |->
     CHOOSE k \in 1..Len(ATTRS) : ATTRS[k][1] = n]

\* Position (1-based) of a field in ATTRS, as Telemetry's attribute lookup.
FieldIndex(name) ==
  NameIndex[name]

\* ------------------------------------------------------------------------
\* ustruct wire encodings (little-endian, "<": no alignment padding)
\* ------------------------------------------------------------------------

\* ustruct.unpack of one value of format character c from the bytes b
\* (Len(b) = TypeSize(c)), least significant byte first.
UnpackValue(c, b) ==
  CASE c = "i" ->
         b[1] + 256 * b[2] + 65536 * b[3]
           + 16777216 * (IF b[4] >= 128 THEN b[4] - 256 ELSE b[4])
    [] c = "I" -> << b[4] * 256 + b[3], b[2] * 256 + b[1] >>
    [] c = "f" ->
         << b[4] \div 128,
            (b[4] % 128) * 2 + b[3] \div 128,
            (b[3] % 128) * 65536 + b[2] * 256 + b[1] >>
    [] c = "H" -> b[1] + 256 * b[2]
    [] c = "B" -> b[1]
    [] c = "b" -> IF b[1] >= 128 THEN b[1] - 256 ELSE b[1]

\* ustruct.unpack_from(fmt, data, off): one value per format character of
\* fmt other than the byte-order mark, each read at the offset (0-based)
\* where the widths of the characters before it end
UnpackFrom(fmt, data, off) ==
  LET types == SelectSeq(fmt, LAMBDA c : c # "<")
  IN  [k \in 1..Len(types) |->
         LET at == off + calcsize(SubSeq(types, 1, k - 1))
         IN  UnpackValue(types[k], SubSeq(data, at + 1, at + TypeSize(types[k])))]

\* unpack demanding the exact size, as CPython's struct.unpack does
UnpackRaisesUnlessExact(fmt, data) ==
  Len(data) # calcsize(fmt)

\* ustruct.unpack(fmt, data) raises ValueError ("buffer too small") when
\* data is shorter than calcsize(fmt).  MicroPython implements unpack with
\* unpack_from and checks "big enough" only: bytes beyond calcsize(fmt)
\* are ignored, not rejected.
UnpackRaises(fmt, data) ==
  Len(data) < calcsize(fmt)

\* ustruct.unpack(fmt, data) when it does not raise
unpack(fmt, data) ==
  UnpackFrom(fmt, data, 0)

\* main.py:169-172: remove UNKNOWN_DATA_SIZE (written 12) bytes at
\* PACKET_SIZE_BEFORE_UNKNOWN_DATA
Splice(d) ==
  Prefix(d, PACKET_SIZE_BEFORE_UNKNOWN_DATA)
    \o Suffix(d, PACKET_SIZE_BEFORE_UNKNOWN_DATA + 12)

\* ------------------------------------------------------------------------
\* The producer's side of the wire format (the game): ustruct.pack of one
\* value, and a whole datagram with the reserved bytes in place.
\* ------------------------------------------------------------------------

\* little-endian bytes of one value of format character c
PackValue(c, v) ==
  CASE c = "i" ->
         LET lo == v % 16777216
         IN  << lo % 256, (lo \div 256) % 256, lo \div 65536,
                ((v - lo) \div 16777216) % 256 >>
    [] c = "I" ->
         << v[2] % 256, v[2] \div 256, v[1] % 256, v[1] \div 256 >>
    [] c = "f" ->
         << v[3] % 256, (v[3] \div 256) % 256,
            (v[3] \div 65536) + (v[2] % 2) * 128,
            v[1] * 128 + v[2] \div 2 >>
    [] c = "H" -> << v % 256, v \div 256 >>
    [] c = "B" -> << v >>
    [] c = "b" -> << v % 256 >>

\* bytes of the fields k..j of a record, in ATTRS order (concatenated by
\* halves)
RECURSIVE PackFields(_, _, _)
PackFields(vals, k, j) ==
  IF k > j THEN <<>>
  ELSE IF k = j THEN PackValue(ATTRS[k][2], vals[k])
  ELSE LET h == (k + j) \div 2
       IN  PackFields(vals, k, h) \o PackFields(vals, h + 1, j)

\* Number of schema fields that precede the reserved bytes on the wire
\* (main.py:79-81: the comment places them after num_cylinders).
FieldsBeforeUnknown == FieldIndex("num_cylinders")

\* A datagram as the game sends it: the fields up to num_cylinders, the
\* reserved bytes pad, the remaining fields, then any trailing bytes.
Encode(vals, pad, trailing) ==
  PackFields(vals, 1, FieldsBeforeUnknown)
    \o pad
    \o PackFields(vals, FieldsBeforeUnknown + 1, Len(vals))
    \o trailing

\* ------------------------------------------------------------------------
\* Floating point (MicroPython floats of the target: IEEE-754 binary32,
\* round to nearest even), on triples <<sign, exponent, mantissa>>
\* ------------------------------------------------------------------------

IsNaN(x) == x[2] = 255 /\ x[3] # 0

IsInf(x) == x[2] = 255 /\ x[3] = 0

IsZero(x) == x[2] = 0 /\ x[3] = 0

NaN == <<0, 255, 4194304>>

Inf(s) == <<s, 255, 0>>

\* bool(x) of a float, as in "if telemetry.engine_max_rpm:"
Truthy(x) == ~IsZero(x)

\* number of binary digits of n > 0
RECURSIVE BitLen(_)
BitLen(n) ==
  IF n = 0 THEN 0 ELSE 1 + BitLen(n \div 2)

\* The float nearest to (-1)^s * (n + f) * 2^k, where n > 0 is below 2^31
\* and 0 <= f < 1 is zero exactly when sticky is FALSE.
RoundPack(s, n, sticky, k) ==
  LET len == BitLen(n)
      e0  == k + (len - 24) + 150
      r   == IF e0 >= 1 THEN len - 24 ELSE (len - 24) + (1 - e0)
      q0  == IF r <= 0 THEN n * 2^(0 - r)
             ELSE IF r >= 31 THEN 0 ELSE n \div 2^r
      rem == IF r <= 0 THEN 0
             ELSE IF r >= 31 THEN n ELSE n % 2^r
      up  == /\ r >= 1
             /\ r <= 31
             /\ \/ rem > 2^(r - 1)
                \/ /\ rem = 2^(r - 1)
                   /\ (sticky \/ q0 % 2 = 1)
      q   == IF up THEN q0 + 1 ELSE q0
      eb  == IF e0 >= 1 THEN e0 ELSE 1
      e1  == IF q >= 16777216 THEN eb + 1 ELSE eb
      q1  == IF q >= 16777216 THEN q \div 2 ELSE q
  IN  IF e1 >= 255 THEN Inf(s)
      ELSE IF q1 >= 8388608 THEN <<s, e1, q1 - 8388608>>
      ELSE <<s, 0, q1>>

\* float(n) of an integer n with |n| < 2^24
FloatOfInt(n) ==
  IF n = 0 THEN <<0, 0, 0>>
  ELSE RoundPack(IF n < 0 THEN 1 ELSE 0, IF n < 0 THEN 0 - n ELSE n, FALSE, 0)

\* significand (with the implicit bit) and exponent of a finite non-zero
\* float: its magnitude is Sig(x) * 2^(Exp(x) - 150)
Sig(x) == IF x[2] = 0 THEN x[3] ELSE x[3] + 8388608

Exp(x) == IF x[2] = 0 THEN 1 ELSE x[2]

\* <<floor(r * 2^n / d), remainder # 0>> for 0 < r < 2 * d, by long division
RECURSIVE LongDiv(_, _, _, _)
LongDiv(r, d, n, q) ==
  LET bit == IF r >= d THEN 1 ELSE 0
      r2  == r - bit * d
  IN  IF n = 0 THEN <<2 * q + bit, r2 # 0>>
      ELSE LongDiv(2 * r2, d, n - 1, 2 * q + bit)

\* x / y of two floats, y not zero (a zero divisor raises
\* ZeroDivisionError; serve tests the divisor first)
FDiv(x, y) ==
  LET s == (x[1] + y[1]) % 2
  IN  IF IsNaN(x) \/ IsNaN(y) \/ (IsInf(x) /\ IsInf(y)) THEN NaN
      ELSE IF IsInf(x) THEN Inf(s)
      ELSE IF IsInf(y) \/ IsZero(x) THEN <<s, 0, 0>>
      ELSE LET nx == 24 - BitLen(Sig(x))
               ny == 24 - BitLen(Sig(y))
               mx == Sig(x) * 2^nx
               my == Sig(y) * 2^ny
               qr == LongDiv(mx, my, 26, 0)
           IN  RoundPack(s, qr[1], qr[2],
                         (Exp(x) - nx) - (Exp(y) - ny) - 26)

\* c * x for an integer 0 < c < 4096 and a float x: c is converted to a
\* float (exactly) and the product is rounded once
FMulInt(c, x) ==
  IF IsNaN(x) \/ IsInf(x) \/ IsZero(x) THEN x
  ELSE LET a   == Sig(x) \div 4096
           b   == Sig(x) % 4096
           low == (b * c) % 4096
           hi  == a * c + (b * c) \div 4096
           sh  == BitLen(hi) + 12 - 30
       IN  IF sh <= 0
           THEN RoundPack(x[1], hi * 4096 + low, FALSE, Exp(x) - 150)
           ELSE RoundPack(x[1], hi * 2^(12 - sh) + low \div 2^sh,
                          low % 2^sh # 0, Exp(x) - 150 + sh)

\* int(x) raises ValueError for a NaN and OverflowError for an infinity
IntRaises(x) ==
  IsNaN(x) \/ IsInf(x)

\* rounding toward minus infinity instead
FIntFloor(x) ==
  LET sh  == Exp(x) - 150
      mag == IF sh >= 0 THEN Sig(x) * 2^sh
             ELSE IF sh < -24 THEN 0
             ELSE Sig(x) \div 2^(0 - sh)
      fr  == IF sh >= 0 THEN FALSE
             ELSE IF sh < -24 THEN Sig(x) # 0
             ELSE Sig(x) % 2^(0 - sh) # 0
  IN  IF x[1] = 1 THEN (IF fr THEN 0 - (mag + 1) ELSE 0 - mag) ELSE mag

\* int(x) of a finite float of magnitude below 2^31: truncation toward zero
FInt(x) ==
  LET sh  == Exp(x) - 150
      mag == IF sh >= 0 THEN Sig(x) * 2^sh
             ELSE IF sh < -24 THEN 0
             ELSE Sig(x) \div 2^(0 - sh)
  IN  IF x[1] = 1 THEN 0 - mag ELSE mag

\* ------------------------------------------------------------------------
\* Formatting (main.py:128-134)
\* ------------------------------------------------------------------------

Digit == <<"0", "1", "2", "3", "4", "5", "6", "7", "8", "9">>

\* str(n) of an integer
RECURSIVE str(_)
str(n) ==
  IF n < 0 THEN <<"-">> \o str(0 - n)
  ELSE IF n < 10 THEN <<Digit[n + 1]>>
  ELSE str(n \div 10) \o <<Digit[(n % 10) + 1]>>

\* main.py:129-130; not defined (raises) when FormatSpeedRaises
format_speed(speed_mps) ==
  FInt(FDiv(FMulInt(3600, speed_mps), FloatOfInt(1000)))

\* main.py:130: int() of a NaN or an infinity raises
FormatSpeedRaises(speed_mps) ==
  IntRaises(FDiv(FMulInt(3600, speed_mps), FloatOfInt(1000)))

\* the gear always as a number, reverse included
format_gear_NoReverse(gear) == str(gear)

\* main.py:133-134
format_gear(gear) ==
  IF gear # 0 THEN str(gear) ELSE <<"R">>

\* ------------------------------------------------------------------------
\* Configuration (config.py, imported at main.py:9-18) and environment
\* ------------------------------------------------------------------------

\* config.SSD1306_WIDTH: width of the display in pixels
SSD1306_WIDTH == 128

\* config.UDP_PORT
UDP_PORT == 5300

\* config.WIFI_SSID, as a text
WIFI_SSID == <<"s", "s", "i", "d">>

\* addresses the access point may hand out, as texts
Addresses ==
  { <<"1", "0", ".", "0", ".", "0", ".", "2">>,
    <<"1", "0", ".", "0", ".", "0", ".", "3">> }

\* number of datagrams received in a run
MaxDatagrams == 5

\* period of utime.ticks_ms(): the counter wraps around to 0 at this value
TicksPeriod == 200

\* milliseconds that may pass between two consecutive receptions
Deltas == {0, 1, 10, 50}

\* ------------------------------------------------------------------------
\* Telemetry records and datagrams fed to the socket
\* ------------------------------------------------------------------------

ZeroOf(c) ==
  CASE c = "f" -> <<0, 0, 0>>
    [] c = "I" -> <<0, 0>>
    [] OTHER -> 0

\* the record whose fields are those of over (a record indexed by field
\* names) and zero elsewhere
Record(over) ==
  [k \in 1..Len(ATTRS) |->
     IF ATTRS[k][1] \in DOMAIN over THEN over[ATTRS[k][1]]
     ELSE ZeroOf(ATTRS[k][2])]

\* 27.78 as a binary32 (0x41DE3D71)
F27_78 == <<0, 131, 6176113>>

\* driving: every wire type carries a non-zero value
RecDrive ==
  Record([is_race_on |-> 1, timestamp_ms |-> <<40000, 4660>>,
          engine_max_rpm |-> FloatOfInt(7000),
          current_engine_rpm |-> FloatOfInt(3500),
          car_ordinal |-> 70000, num_cylinders |-> 8,
          position_x |-> <<1, 133, 4194304>>, speed |-> F27_78,
          lap_number |-> 513, race_position |-> 200, gear |-> 3,
          steer |-> -128, normalized_ai_brake_difference |-> 127])

\* reversing in a car whose telemetry uses negative and extreme values
RecReverse ==
  Record([is_race_on |-> -1, timestamp_ms |-> <<65535, 65535>>,
          engine_max_rpm |-> FloatOfInt(6000),
          current_engine_rpm |-> FloatOfInt(6500),
          drivetrain_type |-> -2147483647, num_cylinders |-> -2,
          position_x |-> <<0, 126, 1>>, speed |-> <<1, 129, 2097152>>,
          lap_number |-> 65535, race_position |-> 255, gear |-> 0,
          steer |-> -1, normalized_driving_line |-> -127])

\* in a menu: no engine data
RecMenu ==
  Record([engine_max_rpm |-> <<0, 0, 0>>,
          current_engine_rpm |-> FloatOfInt(900), gear |-> 11])

\* a record whose speed is not a number
RecNaNSpeed ==
  Record([engine_max_rpm |-> FloatOfInt(7000),
          current_engine_rpm |-> FloatOfInt(7000),
          gear |-> 2, speed |-> NaN])

\* a record whose engine speed is infinite
RecInfRpm ==
  Record([engine_max_rpm |-> FloatOfInt(7000),
          current_engine_rpm |-> Inf(0),
          gear |-> 2, speed |-> FloatOfInt(10)])

Records == {RecDrive, RecReverse, RecMenu, RecNaNSpeed, RecInfRpm}

PadZero == [i \in 1..UNKNOWN_DATA_SIZE |-> 0]

PadPattern == [i \in 1..UNKNOWN_DATA_SIZE |-> 160 + i]

Pads == {PadZero, PadPattern}

\* datagrams of the valid length PACKET_SIZE + 12
WellFormed ==
  { Encode(r, p, <<>>) : r \in Records, p \in Pads }

\* datagrams with bytes after the last field: lengths PACKET_SIZE + 13
\* and PACKET_SIZE + 14
TooLong ==
  { Encode(RecDrive, PadZero, <<0>>), Encode(RecMenu, PadPattern, <<7, 9>>) }

\* datagrams cut short: lengths PACKET_SIZE - 1, PACKET_SIZE and
\* PACKET_SIZE + 11, and the empty datagram
TooShort ==
  { Prefix(Encode(RecDrive, PadZero, <<>>), n) :
      n \in {0, PACKET_SIZE - 1, PACKET_SIZE, PACKET_SIZE + 11} }

\* datagrams fed to the decoder
CodecDatagrams == WellFormed \cup TooLong \cup TooShort

\* milliseconds between receptions when the decoder is exercised
CodecDeltas == {49, 50}

\* datagrams fed to the loop when its timing is exercised
Datagrams ==
  { Encode(RecDrive, PadZero, <<>>),
    Encode(RecNaNSpeed, PadZero, <<>>),
    Prefix(Encode(RecDrive, PadZero, <<>>), PACKET_SIZE + 11) }

\* the record rec with its field name set to v
With(rec, name, v) == [rec EXCEPT ![FieldIndex(name)] = v]

\* values of the gear field (wire type "B", 0..255): reverse, the least
\* and greatest forward gears and the values around each change in the
\* number of digits or in the top bit
Gears ==
  {0, 1, 2, 9, 10, 11, 19, 20, 99, 100, 101, 127, 128, 199, 200, 255}

\* speeds in m/s, as binary32: 27.78, 0.5, 2.5, 100, 0.25, 1.3888888
\* (whose product with 3.6 rounds up to 5.0), 0.27777776 (just under
\* 1 km/h), the least denormal, each with both signs, and both zeros
Speeds ==
  { <<sg, x[1], x[2]>> :
      sg \in {0, 1},
      x \in { <<131, 6176113>>, <<126, 0>>, <<128, 2097152>>,
              <<133, 4718592>>, <<125, 0>>, <<127, 3262236>>,
              <<125, 932067>>, <<0, 1>>, <<0, 0>> } }

\* non-negative engine speeds: 0, the least denormal, 900, +infinity
MenuRpms ==
  { <<0, 0, 0>>, <<0, 0, 1>>, FloatOfInt(900), Inf(0) }

\* records that differ from RecDrive in the gear only
GearRecords == { With(RecDrive, "gear", g) : g \in Gears }

\* records that differ from RecDrive in the speed only
SpeedRecords == { With(RecDrive, "speed", x) : x \in Speeds }

\* records with engine_max_rpm zero (of either sign)
MenuRecords ==
  { With(With(RecMenu, "engine_max_rpm", <<sg, 0, 0>>),
         "current_engine_rpm", r) : sg \in {0, 1}, r \in MenuRpms }

\* datagrams fed to the loop when the formatting is exercised
FormatDatagrams ==
  { Encode(r, PadZero, <<>>) :
      r \in GearRecords \cup SpeedRecords \cup MenuRecords
             \cup {RecNaNSpeed} }
  \cup { Prefix(Encode(RecDrive, PadZero, <<>>), PACKET_SIZE + 11) }

\* milliseconds between receptions when the formatting is exercised
FormatDeltas == {50}

\* ------------------------------------------------------------------------
\* Display operations (ssd1306 frame buffer)
\* ------------------------------------------------------------------------

OpFill(c) == <<"fill", c>>

OpFillRect(x, y, w, h, c) == <<"fill_rect", x, y, w, h, c>>

OpText(t, x, y) == <<"text", t, x, y>>

\* "Gear: {}".format(g)
GearText(g) == <<"G", "e", "a", "r", ":", " ">> \o g

\* "{} KM/H".format(n)
SpeedText(n) == str(n) \o <<" ", "K", "M", "/", "H">>

\* "Port {}".format(n)
PortText(n) == <<"P", "o", "r", "t", " ">> \o str(n)

\* ------------------------------------------------------------------------
\* State
\* ------------------------------------------------------------------------

VARIABLES
  pc,           \* control point of the program
  connected,    \* sta_if.isconnected()
  sta_ip,       \* sta_if.ifconfig()[0]
  ip,           \* main.py:190, the address returned by setup_wifi
  bound,        \* the (address, port) sock is bound to, <<>> before bind
  ticks,        \* the millisecond counter behind utime.ticks_ms()
  data,         \* serve's local data
  now,          \* serve's local now
  last_update,  \* serve's local last_update
  telemetry,    \* serve's local telemetry, <<>> before the first decode
  buffer,       \* frame buffer: the drawing operations since the last fill
  shown,        \* what the display shows: the buffer at the last show()
  shows,        \* number of show() calls made by serve
  err,          \* the exception that ended the program, "" if none
  console,      \* lines the program has written to the console (stdout)
  arrivals,     \* history: value of now for each datagram received
  all_valid,    \* history: every datagram received had the valid length
  fate          \* history: what became of each datagram received

vars ==
  << pc, connected, sta_ip, ip, bound, ticks, data, now,
     last_update, telemetry, buffer, shown, shows, err, console, arrivals,
     all_valid, fate >>

netVars == <<connected, sta_ip, ip, bound>>

loopVars == <<data, now, telemetry, arrivals, all_valid>>

screenVars == <<buffer, shown, shows>>

\* value of a field of the decoded record (attribute access on Telemetry)
Field(t, name) == t[FieldIndex(name)]

\* the gate with its threshold one millisecond short
GatedOffByOne(t, last) == t - last < 49

\* the gate on the elapsed ticks modulo the period of the counter
GatedModulo(t, last) == (t - last) % TicksPeriod < 50

\* main.py:166: the rate gate, "now - last_update < 50"
Gated(t, last) == t - last < 50

Init ==
  /\ pc = "setup_wifi"
  /\ connected = FALSE
  /\ sta_ip = <<>>
  /\ ip = <<>>
  /\ bound = <<>>
  /\ ticks = 0
  /\ data = <<>>
  /\ now = 0
  /\ last_update = 0
  /\ telemetry = <<>>
  /\ buffer = <<>>
  /\ shown = <<>>
  /\ shows = 0
  /\ err = ""
  /\ console = <<>>
  /\ arrivals = <<>>
  /\ all_valid = TRUE
  /\ fate = <<>>

\* ------------------------------------------------------------------------
\* Start-up (main.py:137-160, 190-191)
\* ------------------------------------------------------------------------

\* main.py:138-145: activate the station, announce, start connecting
SetupWifi ==
  /\ pc = "setup_wifi"
  /\ buffer' = << OpFill(0),
                  OpText(<<"C", "o", "n", "n", "e", "c", "t">>, 0, 0),
                  OpText(<<"t", "o">>, 0, 16),
                  OpText(WIFI_SSID, 0, 32) >>
  /\ shown' = buffer'
  /\ pc' = "wifi_wait"
  /\ UNCHANGED <<console, netVars, ticks, loopVars, last_update, shows, err, fate>>

\* the network: the station associates and obtains an address
Associate(a) ==
  /\ pc \in {"wifi_wait", "wifi_idle"}
  /\ ~connected
  /\ connected' = TRUE
  /\ sta_ip' = a
  /\ UNCHANGED <<console, pc, ip, bound, ticks, loopVars, last_update,
                 screenVars, err, fate>>

\* main.py:146-147: not connected yet, call idle()
WifiPoll ==
  /\ pc = "wifi_wait"
  /\ ~connected
  /\ pc' = "wifi_idle"
  /\ UNCHANGED <<console, netVars, ticks, loopVars, last_update, screenVars, err,
                 fate>>

\* main.py:147: idle() returns, test the connection again
WifiIdleReturn ==
  /\ pc = "wifi_idle"
  /\ pc' = "wifi_wait"
  /\ UNCHANGED <<console, netVars, ticks, loopVars, last_update, screenVars, err,
                 fate>>

\* setup_wifi returning without waiting for the connection
WifiConnectedUnchecked ==
  /\ pc = "wifi_wait"
  /\ ip' = sta_ip
  /\ buffer' = << OpFill(0),
                  OpText(<<"S", "e", "r", "v", "e", "r">>, 0, 0),
                  OpText(sta_ip, 0, 16),
                  OpText(PortText(UDP_PORT), 0, 32) >>
  /\ shown' = buffer'
  /\ pc' = "serve"
  /\ UNCHANGED <<console, connected, sta_ip, bound, ticks, loopVars,
                 last_update, shows, err, fate>>

\* main.py:146, 148-154, 190: connected, show the address and return it
WifiConnected ==
  /\ pc = "wifi_wait"
  /\ connected
  /\ ip' = sta_ip
  /\ buffer' = << OpFill(0),
                  OpText(<<"S", "e", "r", "v", "e", "r">>, 0, 0),
                  OpText(sta_ip, 0, 16),
                  OpText(PortText(UDP_PORT), 0, 32) >>
  /\ shown' = buffer'
  /\ pc' = "serve"
  /\ UNCHANGED <<console, connected, sta_ip, bound, ticks, loopVars,
                 last_update, shows, err, fate>>

\* main.py:191, 157-160: serve(ip) initialises the gate and binds
ServeStart ==
  /\ pc = "serve"
  /\ last_update' = 0
  /\ bound' = <<ip, UDP_PORT>>
  /\ pc' = "recv"
  /\ UNCHANGED <<console, connected, sta_ip, ip, ticks, loopVars,
                 screenVars, err, fate>>

\* ------------------------------------------------------------------------
\* The ingestion loop (main.py:162-187)
\* ------------------------------------------------------------------------

\* main.py:163-164: a datagram d arrives dt ms after the previous
\* reception; recv returns at most 1024 bytes of it; read the clock
Recv(d, dt) ==
  /\ pc = "recv"
  /\ Len(arrivals) < MaxDatagrams
  /\ ticks' = (ticks + dt) % TicksPeriod
  /\ data' = Prefix(d, 1024)
  /\ now' = ticks'
  /\ arrivals' = Append(arrivals, now')
  /\ all_valid' =
       (all_valid /\ Len(data') = PACKET_SIZE + UNKNOWN_DATA_SIZE)
  /\ fate' = Append(fate, "pending")
  /\ pc' = "gate"
  /\ UNCHANGED <<console, netVars, last_update, telemetry, screenVars, err>>

\* main.py:163: sock.recv raises (transport failure); serve ends
RecvFail ==
  /\ pc = "recv"
  /\ err' = "OSError"
  /\ pc' = "raised"
  /\ UNCHANGED <<console, netVars, ticks, loopVars, last_update, screenVars, fate>>

\* what became of the datagram being processed
Settle(f) == [fate EXCEPT ![Len(fate)] = f]

\* main.py:166-167: less than 50 ms since the last update, continue
GateDrop ==
  /\ pc = "gate"
  /\ Gated(now, last_update)
  /\ fate' = Settle("dropped")
  /\ pc' = "recv"
  /\ UNCHANGED <<console, netVars, ticks, loopVars, last_update, screenVars, err>>

\* main.py:166, 169-174: the gate is passed; splice, unpack, build the
\* record
Decode ==
  /\ pc = "gate"
  /\ ~Gated(now, last_update)
  /\ ~UnpackRaises(PACKET_FORMAT, Splice(data))
  /\ data' = unpack(PACKET_FORMAT, Splice(data))
  /\ telemetry' = data'
  /\ pc' = "render"
  /\ UNCHANGED <<console, netVars, ticks, now, arrivals, all_valid,
                 last_update, screenVars, err, fate>>

\* main.py:166, 169-173: the gate is passed and ustruct.unpack raises;
\* nothing catches the exception
DecodeRaise ==
  /\ pc = "gate"
  /\ ~Gated(now, last_update)
  /\ UnpackRaises(PACKET_FORMAT, Splice(data))
  /\ data' = Splice(data)
  /\ err' = "ValueError"
  /\ fate' = Settle("raised")
  /\ pc' = "raised"
  /\ UNCHANGED <<console, netVars, ticks, now, arrivals, all_valid, telemetry,
                 last_update, screenVars>>

\* main.py:177-180: the float SSD1306_WIDTH * (current / max)
BarRatio(t) ==
  FMulInt(SSD1306_WIDTH,
          FDiv(Field(t, "current_engine_rpm"), Field(t, "engine_max_rpm")))

\* main.py:179: the division raises ZeroDivisionError for a zero divisor
DivRaises(t) == IsZero(Field(t, "engine_max_rpm"))

\* the test of main.py:176 left out: the ratio is computed for every record
WidthGuardMissing(t) == TRUE

\* main.py:176: "if telemetry.engine_max_rpm:"
WidthGuard(t) == Truthy(Field(t, "engine_max_rpm"))

\* main.py:176-182: the division raises for a zero divisor, int() raises
\* when the ratio is a NaN or an infinity
WidthRaises(t) ==
  WidthGuard(t) /\ (DivRaises(t) \/ IntRaises(BarRatio(t)))

\* main.py:176-182: the width of the RPM bar
Width(t) ==
  IF WidthGuard(t) THEN FInt(BarRatio(t)) ELSE 0

\* main.py:175-185: the frame drawn for a record
Frame(t) ==
  << OpFill(0),
     OpFillRect(0, 0, Width(t), 10, 1),
     OpText(GearText(format_gear(Field(t, "gear"))), 0, 20),
     OpText(SpeedText(format_speed(Field(t, "speed"))), 0, 40) >>

\* the redraw without the final "last_update = now"
RenderWithoutUpdate ==
  /\ pc = "render"
  /\ ~WidthRaises(telemetry)
  /\ ~FormatSpeedRaises(Field(telemetry, "speed"))
  /\ buffer' = Frame(telemetry)
  /\ shown' = buffer'
  /\ shows' = shows + 1
  /\ fate' = Settle("rendered")
  /\ pc' = "recv"
  /\ UNCHANGED <<console, netVars, ticks, loopVars, last_update, err>>

\* main.py:175-187: redraw the screen, show it, record the update time
Render ==
  /\ pc = "render"
  /\ ~WidthRaises(telemetry)
  /\ ~FormatSpeedRaises(Field(telemetry, "speed"))
  /\ buffer' = Frame(telemetry)
  /\ shown' = buffer'
  /\ shows' = shows + 1
  /\ last_update' = now
  /\ fate' = Settle("rendered")
  /\ pc' = "recv"
  /\ UNCHANGED <<console, netVars, ticks, loopVars, err>>

\* main.py:175-185: the division or int() raises in the bar width (after
\* the fill) or int() raises in format_speed (after the bar and the gear text); nothing catches it and
\* show() is not reached
RenderRaise ==
  /\ pc = "render"
  /\ WidthRaises(telemetry) \/ FormatSpeedRaises(Field(telemetry, "speed"))
  /\ buffer' =
       IF WidthRaises(telemetry) THEN << OpFill(0) >>
       ELSE << OpFill(0),
               OpFillRect(0, 0, Width(telemetry), 10, 1),
               OpText(GearText(format_gear(Field(telemetry, "gear"))),
                      0, 20) >>
  /\ err' =
       IF WidthGuard(telemetry) /\ DivRaises(telemetry)
       THEN "ZeroDivisionError"
       ELSE IF IsNaN(IF WidthRaises(telemetry) THEN BarRatio(telemetry)
                     ELSE Field(telemetry, "speed"))
       THEN "ValueError" ELSE "OverflowError"
  /\ fate' = Settle("raised")
  /\ pc' = "raised"
  /\ UNCHANGED <<console, netVars, ticks, loopVars, last_update, shown, shows>>

Next ==
  \/ SetupWifi
  \/ \E a \in Addresses : Associate(a)
  \/ WifiPoll
  \/ WifiIdleReturn
  \/ WifiConnected
  \/ ServeStart
  \/ \E d \in Datagrams, dt \in Deltas : Recv(d, dt)
  \/ RecvFail
  \/ GateDrop
  \/ Decode
  \/ DecodeRaise
  \/ Render
  \/ RenderRaise

Spec == Init /\ [][Next]_vars

\* the same program, fed the decoder's datagrams
NextCodec ==
  \/ SetupWifi
  \/ \E a \in Addresses : Associate(a)
  \/ WifiPoll
  \/ WifiIdleReturn
  \/ WifiConnected
  \/ ServeStart
  \/ \E d \in CodecDatagrams, dt \in CodecDeltas : Recv(d, dt)
  \/ RecvFail
  \/ GateDrop
  \/ Decode
  \/ DecodeRaise
  \/ Render
  \/ RenderRaise

SpecCodec == Init /\ [][NextCodec]_vars

\* the same program, fed the datagrams that exercise the formatting
NextFormat ==
  \/ SetupWifi
  \/ \E a \in Addresses : Associate(a)
  \/ WifiPoll
  \/ WifiIdleReturn
  \/ WifiConnected
  \/ ServeStart
  \/ \E d \in FormatDatagrams, dt \in FormatDeltas : Recv(d, dt)
  \/ RecvFail
  \/ GateDrop
  \/ Decode
  \/ DecodeRaise
  \/ Render
  \/ RenderRaise

SpecFormat == Init /\ [][NextFormat]_vars

\* ------------------------------------------------------------------------
\* Properties
\* ------------------------------------------------------------------------

\* byte offset just after the n-th field of the schema: the sum of the
\* widths of ATTRS[0..n-1]
OffsetAfter(n) ==
  calcsize([k \in 1..n |-> ATTRS[k][2]])

\* d without the 12 bytes at [OffsetAfter(58), OffsetAfter(58) + 12)
WithoutReserved(d) ==
  Prefix(d, OffsetAfter(58)) \o Suffix(d, OffsetAfter(58) + 12)

\* C1: the 12 bytes serve removes from a processed datagram are those at
\* [split, split + 12), where split = 232 is the offset just after the 58th
\* field (num_cylinders); so num_cylinders is decoded from datagram bytes
\* 228..231 and position_x from bytes 244..247.  Stated on the step that
\* decodes: data is the datagram before the step, telemetry' the record.
C1_ReservedBytesRemoved ==
  [][ (pc = "gate" /\ pc' = "render") =>
        /\ OffsetAfter(58) = 232
        /\ telemetry' = unpack(PACKET_FORMAT, WithoutReserved(data))
        /\ Field(telemetry', "num_cylinders")
             = UnpackValue("i", SubSeq(data, 229, 232))
        /\ Field(telemetry', "position_x")
             = UnpackValue("f", SubSeq(data, 245, 248)) ]_vars

\* C2: malformed input never stops the loop: a datagram that passes the
\* rate gate and whose length is not PACKET_SIZE + 12 is dropped, and
\* serve goes on to receive the next datagram.
C2_MalformedNeverStopsLoop ==
  [][ ( /\ pc = "gate"
        /\ ~(now - last_update < 50)
        /\ Len(data) # PACKET_SIZE + 12 ) =>
      ( /\ pc' = "recv"
        /\ err' = ""
        /\ fate' = Settle("dropped") ) ]_vars

\* C3: five well-formed datagrams received at 0, 10, 10, 60 and 61 ms:
\* those at 0 and 60 are rendered, the others dropped, and last_update is
\* 60 afterwards.
C3_RateGateExample ==
  (arrivals = <<0, 10, 10, 60, 61>> /\ all_valid /\ pc = "recv") =>
    /\ fate = <<"rendered", "dropped", "dropped", "rendered", "dropped">>
    /\ last_update = 60

NonDecreasing(s) ==
  \A i \in 1..(Len(s) - 1) : s[i] <= s[i + 1]

\* C4: minimum spacing: when the receive timestamps are non-decreasing,
\* any two rendered datagrams were received at least 50 ms apart.
C4_MinimumSpacing ==
  NonDecreasing(arrivals) =>
    \A i, j \in DOMAIN fate :
      (i < j /\ fate[i] = "rendered" /\ fate[j] = "rendered") =>
        arrivals[j] - arrivals[i] >= 50

\* C4 happens: two datagrams were rendered, and one received 49 ms after
\* the first of them was dropped in between.
C4_Witness ==
  /\ NonDecreasing(arrivals)
  /\ \E i, j, k \in DOMAIN fate :
       /\ i < j /\ j < k
       /\ fate[i] = "rendered" /\ fate[j] = "dropped" /\ fate[k] = "rendered"
       /\ arrivals[j] - arrivals[i] = 49

C6_RoundTrip ==
  [][ (pc = "gate" /\ pc' = "render") =>
        \A r \in Records, p \in Pads :
          data = Encode(r, p, <<>>) => telemetry' = r ]_vars

\* C7: the rate gate is applied before decoding and a gated datagram has
\* no effect: when now - last_update < 50 the datagram is neither spliced
\* nor unpacked, no error is raised whatever its length, last_update is left
\* alone and no display operation is issued.
C7_GatedDatagramHasNoEffect ==
  [][ (pc = "gate" /\ now - last_update < 50) =>
      ( /\ pc' = "recv"
        /\ err' = ""
        /\ fate' = Settle("dropped")
        /\ UNCHANGED <<data, telemetry, last_update, buffer, shown, shows>> )
    ]_vars

\* C7 happens: a datagram of a wrong length received 49 ms after an update
\* has been dropped by the gate, and the loop is receiving again.
C7_Witness ==
  /\ pc = "recv"
  /\ err = ""
  /\ ~all_valid
  /\ Len(fate) >= 2
  /\ fate[Len(fate)] = "dropped"
  /\ Len(data) # PACKET_SIZE + 12
  /\ now - last_update = 49

\* C8: a datagram of length PACKET_SIZE + 12 that passes the rate gate is
\* always accepted, whatever its field values: it is decoded, rendered,
\* last_update is set to now and the loop continues.
C8_WellFormedAlwaysRendered ==
  [][ /\ ( /\ pc = "gate"
           /\ ~(now - last_update < 50)
           /\ Len(data) = PACKET_SIZE + 12 ) => pc' = "render"
      /\ (pc = "render" /\ all_valid) =>
           ( /\ pc' = "recv"
             /\ err' = ""
             /\ fate' = Settle("rendered")
             /\ shows' = shows + 1
             /\ last_update' = now ) ]_vars

\* C9: last_update never decreases: it is written only by the loop, only
\* when a datagram is accepted, and each write strictly increases it,
\* also when the tick counter has wrapped around.
C9_LastUpdateNeverDecreases ==
  [][ /\ last_update' >= last_update
      /\ last_update' # last_update =>
           ( /\ pc = "render"
             /\ pc' = "recv"
             /\ fate' = Settle("rendered")
             /\ last_update' = now
             /\ last_update' > last_update ) ]_vars

\* C9 happens: the tick counter has wrapped around after an update, and the
\* datagram received after the wrap has been through the gate.
C9_Witness ==
  /\ pc = "recv"
  /\ last_update > 0
  /\ now < last_update
  /\ fate[Len(fate)] = "dropped"

\* the datagrams that were rendered, as positions in the arrival sequence
RenderedSet == {i \in DOMAIN fate : fate[i] = "rendered"}

\* C10: datagrams are processed in arrival order with no overlap: when a
\* datagram is received, every earlier one has been dropped or completely
\* rendered (one show() per rendered datagram, last_update written with
\* the receive time of the last one rendered).
C10_NoOverlap ==
  /\ \A i \in 1..(Len(fate) - 1) : fate[i] \in {"dropped", "rendered"}
  /\ pc = "recv" =>
       /\ \A i \in DOMAIN fate : fate[i] \in {"dropped", "rendered"}
       /\ shows = Cardinality(RenderedSet)
       /\ RenderedSet # {} =>
            /\ last_update = arrivals[CHOOSE i \in RenderedSet :
                                        \A j \in RenderedSet : j <= i]
            /\ shown = buffer
  /\ pc = "gate" => fate[Len(fate)] = "pending"
  /\ Len(fate) = Len(arrivals)

\* C10 happens: two datagrams have been rendered and one dropped, and the
\* loop is about to receive again.
C10_Witness ==
  /\ pc = "recv"
  /\ Cardinality(RenderedSet) >= 2
  /\ \E i \in DOMAIN fate : fate[i] = "dropped"

\* C11: every datagram that passed the gate and was decoded causes exactly
\* one full redraw: fill(0), the RPM bar, the gear text, the speed text and
\* one show(), in that order, and last_update becomes the datagram's
\* receive time; a dropped datagram causes no redraw.
C11_OneRedrawPerDecoded ==
  [][ /\ pc = "render" =>
           /\ Len(buffer') = 4
           /\ buffer'[1] = OpFill(0)
           /\ buffer'[2][1] = "fill_rect"
           /\ buffer'[3] =
                OpText(GearText(format_gear(Field(telemetry, "gear"))),
                       0, 20)
           /\ buffer'[4][1] = "text"
           /\ buffer'[4][2][Len(buffer'[4][2])] = "H"
           /\ shown' = buffer'
           /\ shows' = shows + 1
           /\ last_update' = now
      /\ (pc = "gate" /\ pc' = "recv") =>
           UNCHANGED <<buffer, shown, shows, last_update>> ]_vars

\* C12: when the decoded engine_max_rpm is 0, the bar drawn by fill_rect
\* has width 0 whatever the non-negative current_engine_rpm, and no
\* division by engine_max_rpm is evaluated (none raises).
C12_ZeroMaxRpmZeroWidth ==
  [][ ( /\ pc = "render"
        /\ IsZero(Field(telemetry, "engine_max_rpm"))
        /\ Field(telemetry, "current_engine_rpm")[1] = 0
        /\ ~IsNaN(Field(telemetry, "current_engine_rpm")) ) =>
      ( /\ Len(buffer') >= 2
        /\ buffer'[2] = OpFillRect(0, 0, 0, 10, 1)
        /\ err' # "ZeroDivisionError" ) ]_vars

\* C12 happens: a record with engine_max_rpm 0 and a positive
\* current_engine_rpm has been drawn.
C12_Witness ==
  /\ pc = "recv"
  /\ shows > 0
  /\ fate[Len(fate)] = "rendered"
  /\ IsZero(Field(telemetry, "engine_max_rpm"))
  /\ Field(telemetry, "current_engine_rpm") = Inf(0)
  /\ shown[2] = OpFillRect(0, 0, 0, 10, 1)

\* the value of a decimal digit character, -1 for any other character
DigitValue(ch) ==
  IF \E k \in 0..9 : Digit[k + 1] = ch
  THEN CHOOSE k \in 0..9 : Digit[k + 1] = ch
  ELSE -1

\* txt is the decimal numeral of n >= 0: digits only, no leading zero
\* unless n = 0, and the digits weigh n
RECURSIVE DigitsWeigh(_, _)
DigitsWeigh(txt, n) ==
  IF Len(txt) = 0 THEN n = 0
  ELSE /\ DigitValue(txt[Len(txt)]) = n % 10
       /\ DigitsWeigh(SubSeq(txt, 1, Len(txt) - 1), n \div 10)

IsNumeral(txt, n) ==
  /\ Len(txt) >= 1
  /\ (Len(txt) > 1 => txt[1] # "0")
  /\ DigitsWeigh(txt, n)

\* the text drawn by the k-th operation of a frame, without its first
\* skip characters and its last drop characters
DrawnText(frame, k, skip, drop) ==
  SubSeq(frame[k][2], skip + 1, Len(frame[k][2]) - drop)

\* C13: the gear text drawn is "R" for gear 0 and the decimal numeral of
\* g for every gear g in 1..255.
C13_GearText ==
  [][ (pc = "render" /\ pc' = "recv") =>
      LET g   == Field(telemetry, "gear")
          txt == DrawnText(buffer', 3, 6, 0)
      IN  /\ g \in 0..255
          /\ SubSeq(buffer'[3][2], 1, 6) = <<"G", "e", "a", "r", ":", " ">>
          /\ g = 0 => txt = <<"R">>
          /\ g > 0 => IsNumeral(txt, g) ]_vars

\* C13 happens: gear 0 has been drawn as "R" on the display.
C13_Witness ==
  /\ pc = "recv"
  /\ fate # <<>>
  /\ fate[Len(fate)] = "rendered"
  /\ Field(telemetry, "gear") = 0
  /\ DrawnText(shown, 3, 6, 0) = <<"R">>

\* txt is the decimal numeral of the integer n, with "-" when n < 0
IsSignedNumeral(txt, n) ==
  IF n < 0
  THEN Len(txt) >= 2 /\ txt[1] = "-" /\ IsNumeral(Tail(txt), 0 - n)
  ELSE IsNumeral(txt, n)

\* the integer n is the finite float q truncated toward zero: n has the
\* sign of q (or is 0) and |n| <= |q| < |n| + 1, where
\* |q| = Sig(q) * 2^(Exp(q) - 150) < 2^24
IsTruncation(n, q) ==
  LET a == IF n < 0 THEN 0 - n ELSE n
      r == 150 - Exp(q)
  IN  /\ n < 0 => q[1] = 1
      /\ n > 0 => q[1] = 0
      /\ r >= 0
      /\ IF r > 24 THEN a = 0
         ELSE /\ a <= 16777216 \div 2^r
              /\ a * 2^r <= Sig(q)
              /\ Sig(q) < (a + 1) * 2^r

\* integers a speed text may stand for
KmhRange == -512..512

\* km/h of the speeds 27.78, 0.5, 2.5 and 100 m/s and of their opposites,
\* from the real product speed * 3.6 truncated toward zero
KnownKmh ==
  << <<(<<0, 131, 6176113>>), 100>>, <<(<<1, 131, 6176113>>), -100>>,
     <<(<<0, 126, 0>>), 1>>, <<(<<1, 126, 0>>), -1>>,
     <<(<<0, 128, 2097152>>), 9>>, <<(<<1, 128, 2097152>>), -9>>,
     <<(<<0, 133, 4718592>>), 360>>, <<(<<1, 133, 4718592>>), -360>> >>

\* C14: the speed text drawn stands for speed * 3600 / 1000 (computed in
\* binary32) truncated toward zero, not floored, for positive and for
\* negative speeds; 27.78 gives 100.
C14_SpeedTruncated ==
  [][ (pc = "render" /\ pc' = "recv") =>
      LET x   == Field(telemetry, "speed")
          q   == FDiv(FMulInt(3600, x), FloatOfInt(1000))
          txt == DrawnText(buffer', 4, 0, 5)
      IN  /\ SubSeq(buffer'[4][2], Len(txt) + 1, Len(txt) + 5)
               = <<" ", "K", "M", "/", "H">>
          /\ \E n \in KmhRange :
               IsSignedNumeral(txt, n) /\ IsTruncation(n, q)
          /\ \A k \in DOMAIN KnownKmh :
               x = KnownKmh[k][1] => IsSignedNumeral(txt, KnownKmh[k][2])
    ]_vars

\* C14 happens: a negative speed whose km/h value is not an integer
\* (-0.5 m/s, -1.8 km/h) has been drawn, as "-1 KM/H".
C14_Witness ==
  /\ pc = "recv"
  /\ fate # <<>>
  /\ fate[Len(fate)] = "rendered"
  /\ Field(telemetry, "speed") = <<1, 126, 0>>
  /\ DrawnText(shown, 4, 0, 5) = <<"-", "1">>

\* C15: every datagram that is decoded and drawn also makes the program
\* write exactly one line, holding the formatted gear and speed, to the
\* console; a dropped datagram writes none.
C15_ConsoleLinePerDecoded ==
  [][ /\ (pc = "render" /\ pc' = "recv") =>
           /\ Len(console') = Len(console) + 1
           /\ \E i, j \in 1..Len(console'[Len(console')]) :
                /\ i <= j
                /\ SubSeq(console'[Len(console')], i, j)
                     = format_gear(Field(telemetry, "gear"))
      /\ (pc = "gate" /\ pc' = "recv") => console' = console ]_vars

\* C16: a datagram received at least 50 ms after the previous reception,
\* hence at least 50 ms after the last accepted datagram, passes the gate,
\* also when the tick counter has wrapped around in between.
C16_AcceptedAfterInterval ==
  [][ ( /\ pc = "recv"
        /\ pc' = "gate"
        /\ shows > 0
        /\ (ticks' - ticks) % TicksPeriod >= 50 ) =>
      ~(now' - last_update' < 50) ]_vars

\* C17: the socket is bound and datagrams are received only once the
\* station is connected; while it is not, setup_wifi only polls, one
\* idle() per poll; it returns the station's address, and serve binds
\* to that address and UDP_PORT.
C17_StartupOrdering ==
  [][ /\ pc' \in {"serve", "recv", "gate", "render", "raised"} =>
           connected' /\ ip' = sta_ip' /\ ip' \in Addresses
      /\ bound' # <<>> => bound' = <<sta_ip', UDP_PORT>>
      /\ arrivals' # <<>> => bound' # <<>>
      /\ (pc = "wifi_wait" /\ ~connected /\ pc' # pc) =>
           pc' = "wifi_idle"
      /\ (pc = "wifi_idle" /\ pc' # pc) => pc' = "wifi_wait"
      /\ pc \in {"setup_wifi", "wifi_wait", "wifi_idle"} =>
           bound = <<>> /\ arrivals = <<>> ]_vars

\* C17 happens: the station was polled before it connected, and the first
\* datagram has been received on the socket bound to its address.
C17_Witness ==
  /\ pc = "gate"
  /\ Len(arrivals) = 1
  /\ connected
  /\ bound = <<sta_ip, UDP_PORT>>
  /\ sta_ip \in Addresses
====
